---- MODULE Spec2Model ----
(***************************************************************************)
(* Effect inference of the quint compiler (quint/src/effects/inferrer.ts). *)
(* The EffectInferrer visitor is modelled as a state machine: one action   *)
(* per visitor callback, driven by the callback sequence of a walk over a  *)
(* module drawn from a bounded family of modules.                          *)
(*                                                                         *)
(* The inferrer imports unify, toScheme and effectNames (./base),          *)
(* applySubstitution and compose (./substitutions), buildErrorLeaf and     *)
(* buildErrorTree (../errorTree), standardPropagation and getSignatures    *)
(* (./builtinSignatures), FreshVarGenerator, walkDefinition (../IRVisitor) *)
(* and expressionToString (../IRprinting).  Those files are not part of    *)
(* the sources at hand; their operators are written after the design       *)
(* document (sections 3, 4.1-4.6 and 7).                                   *)
(***************************************************************************)
EXTENDS Integers, Sequences, FiniteSets, TLC

(***************************************************************************)
(* Either (@sweet-monads/either): right(v) / left(e).                      *)
(***************************************************************************)
right(v) == [tag |-> "right", value |-> v]

left(e) == [tag |-> "left", value |-> e]

isRight(r) == r.tag = "right"

isLeft(r) == r.tag = "left"

\* r.chain(f), r.map(f), r.mapLeft(f)
chain(r, f(_)) == IF isLeft(r) THEN r ELSE f(r.value)

map(r, f(_)) == IF isLeft(r) THEN r ELSE right(f(r.value))

mapLeft(r, f(_)) == IF isLeft(r) THEN left(f(r.value)) ELSE r

\* mergeInMany: all right -> right of the values, else left of all errors
\* (the array of errors is carried in the field "many").
mergeInMany(rs) ==
  IF \A i \in 1..Len(rs) : isRight(rs[i])
  THEN right([i \in 1..Len(rs) |-> rs[i].value])
  ELSE LET bad == SelectSeq(rs, isLeft)
       IN left([many |-> [i \in 1..Len(bad) |-> bad[i].value]])

(***************************************************************************)
(* ErrorTree: message, location, children.                                 *)
(***************************************************************************)
buildErrorLeaf(loc, msg) == [location |-> loc, message |-> msg, children |-> <<>>]

\* A parent frame is added as a new root; an array of errors becomes the
\* children, a single tree becomes the only child.
buildErrorTree(loc, err) ==
  IF "many" \in DOMAIN err
  THEN [location |-> loc, message |-> "", children |-> err.many]
  ELSE [location |-> loc, message |-> "", children |-> <<err>>]

(***************************************************************************)
(* Effect / Entity model.                                                  *)
(*   Entity: concrete(stateVariables) | variable(name) | union(entities)   *)
(*   Effect: concrete(components) | variable(name) | arrow(params, result) *)
(*   EffectScheme: effect, effectVariables, entityVariables                *)
(***************************************************************************)
ConcreteEntity(vars) == [kind |-> "concrete", stateVariables |-> vars]

EntityVar(n) == [kind |-> "variable", name |-> n]

UnionEntity(es) == [kind |-> "union", entities |-> es]

Component(k, ent) == [kind |-> k, entity |-> ent]

ConcreteEffect(cs) == [kind |-> "concrete", components |-> cs]

EffectVar(n) == [kind |-> "variable", name |-> n]

ArrowEffect(ps, r) == [kind |-> "arrow", params |-> ps, result |-> r]

Pure == ConcreteEffect(<<>>)

Scheme(e, effVars, entVars) ==
  [effect |-> e, effectVariables |-> effVars, entityVariables |-> entVars]

\* toScheme quantifies nothing: the rule (LAMBDA-PARAM) of the inferrer,
\* "Gamma |- p: e_p_ref", needs a parameter's variable to survive newInstance.
toScheme(e) == Scheme(e, <<>>, <<>>)

\* Sets of names are JavaScript Sets: they iterate in insertion order, so
\* they are kept as sequences without repetition.
inSeq(x, s) == \E i \in 1..Len(s) : s[i] = x

RECURSIVE orderedUnion(_, _)
orderedUnion(s, t) ==
  IF t = <<>> THEN s
  ELSE IF inSeq(Head(t), s) THEN orderedUnion(s, Tail(t))
       ELSE orderedUnion(Append(s, Head(t)), Tail(t))

RECURSIVE entityNames(_)
entityNames(v) ==
  CASE v.kind = "variable" -> <<v.name>>
    [] v.kind = "concrete" -> <<>>
    [] v.kind = "union" ->
         LET RECURSIVE go(_, _)
             go(i, acc) == IF i > Len(v.entities) THEN acc
                           ELSE go(i + 1, orderedUnion(acc, entityNames(v.entities[i])))
         IN go(1, <<>>)

mergeNames(acc, n) ==
  [effectVariables |-> orderedUnion(acc.effectVariables, n.effectVariables),
   entityVariables |-> orderedUnion(acc.entityVariables, n.entityVariables)]

\* freeNames of the design document, effectNames of ./base
RECURSIVE effectNames(_)
effectNames(e) ==
  CASE e.kind = "variable" ->
         [effectVariables |-> <<e.name>>, entityVariables |-> <<>>]
    [] e.kind = "concrete" ->
         LET RECURSIVE go(_, _)
             go(i, acc) == IF i > Len(e.components) THEN acc
                           ELSE go(i + 1, orderedUnion(acc, entityNames(e.components[i].entity)))
         IN [effectVariables |-> <<>>, entityVariables |-> go(1, <<>>)]
    [] e.kind = "arrow" ->
         LET RECURSIVE go(_, _)
             go(i, acc) ==
               IF i > Len(e.params) THEN mergeNames(acc, effectNames(e.result))
               ELSE go(i + 1, mergeNames(acc, effectNames(e.params[i])))
         IN go(1, [effectVariables |-> <<>>, entityVariables |-> <<>>])

(***************************************************************************)
(* Substitution engine: an ordered sequence of bindings                    *)
(*   [kind |-> "effect" | "entity", name, value].                          *)
(***************************************************************************)
Binding(k, n, v) == [kind |-> k, name |-> n, value |-> v]

\* index of the first binding of (k, n) in subs, 0 when there is none
findSub(subs, k, n) ==
  LET hits == {i \in 1..Len(subs) : subs[i].kind = k /\ subs[i].name = n}
  IN IF hits = {} THEN 0 ELSE CHOOSE i \in hits : \A j \in hits : i <= j

selfReferential(b) ==
  IF b.kind = "effect"
  THEN b.value # EffectVar(b.name) /\ inSeq(b.name, effectNames(b.value).effectVariables)
  ELSE b.value # EntityVar(b.name) /\ inSeq(b.name, entityNames(b.value))

\* a variable is replaced by the value of its first binding
substitute(subs, k, term) ==
  LET i == findSub(subs, k, term.name)
  IN IF i = 0 THEN right(term)
     ELSE IF selfReferential(subs[i])
          THEN left(buildErrorLeaf("Applying substitution", "Cyclical binding"))
          ELSE right(subs[i].value)

RECURSIVE applySubstitutionToEntity(_, _)
applySubstitutionToEntity(subs, v) ==
  CASE v.kind = "variable" -> substitute(subs, "entity", v)
    [] v.kind = "concrete" -> right(v)
    [] v.kind = "union" ->
         mapLeft(map(mergeInMany([i \in 1..Len(v.entities) |->
                                    applySubstitutionToEntity(subs, v.entities[i])]),
                     LAMBDA es : UnionEntity(es)),
                 LAMBDA err : buildErrorTree("Applying substitution to union", err))

RECURSIVE applySubstitution(_, _)
applySubstitution(subs, e) ==
  CASE e.kind = "variable" -> substitute(subs, "effect", e)
    [] e.kind = "arrow" ->
         mapLeft(chain(mergeInMany([i \in 1..Len(e.params) |->
                                      applySubstitution(subs, e.params[i])]),
                       LAMBDA ps : map(applySubstitution(subs, e.result),
                                       LAMBDA r : ArrowEffect(ps, r))),
                 LAMBDA err : buildErrorTree("Applying substitution to arrow effect", err))
    [] e.kind = "concrete" ->
         mapLeft(map(mergeInMany([i \in 1..Len(e.components) |->
                                    applySubstitutionToEntity(subs, e.components[i].entity)]),
                     LAMBDA es : ConcreteEffect([i \in 1..Len(e.components) |->
                                                   Component(e.components[i].kind, es[i])])),
                 LAMBDA err : buildErrorTree("Applying substitution to concrete effect", err))

applySubstitutionToBinding(subs, b) ==
  map(IF b.kind = "effect"
      THEN applySubstitution(subs, b.value)
      ELSE applySubstitutionToEntity(subs, b.value),
      LAMBDA v : Binding(b.kind, b.name, v))

\* compose(older, newer): newer is applied to every value bound in older,
\* then the bindings of newer whose variables older does not bind are appended.
compose(older, newer) ==
  mapLeft(map(mergeInMany([i \in 1..Len(older) |->
                             applySubstitutionToBinding(newer, older[i])]),
              LAMBDA rewritten :
                rewritten \o SelectSeq(newer, LAMBDA b : findSub(older, b.kind, b.name) = 0)),
          LAMBDA err : buildErrorTree("Composing substitutions", err))

(***************************************************************************)
(* Unifier (design document, section 4.3).                                 *)
(***************************************************************************)
bindEntity(n, v) ==
  IF inSeq(n, entityNames(v))
  THEN left(buildErrorLeaf("Trying to unify entities", "Can't bind entity variable: cyclical binding"))
  ELSE right(<<Binding("entity", n, v)>>)

\* bindEffect without the occurs check
bindEffectUnchecked(n, e) == right(<<Binding("effect", n, e)>>)

bindEffect(n, e) ==
  IF inSeq(n, effectNames(e).effectVariables)
  THEN left(buildErrorLeaf("Trying to unify effects", "Can't bind effect variable: cyclical binding"))
  ELSE right(<<Binding("effect", n, e)>>)

\* the entities of a union, unions inside unions flattened
RECURSIVE flattenUnion(_)
flattenUnion(v) ==
  IF v.kind # "union" THEN <<v>>
  ELSE LET RECURSIVE cat(_)
           cat(i) == IF i > Len(v.entities) THEN <<>>
                     ELSE flattenUnion(v.entities[i]) \o cat(i + 1)
       IN cat(1)

allConcrete(flat) == \A i \in 1..Len(flat) : flat[i].kind = "concrete"

\* a union resolves when all its members are concrete: to the union of their sets
unionResolves(v) == allConcrete(flattenUnion(v))

unionOfSets(flat) == UNION {flat[i].stateVariables : i \in 1..Len(flat)}

resolvedUnion(v) == unionOfSets(flattenUnion(v))

unifyEntities(v1, v2) ==
  CASE v1 = v2 -> right(<<>>)
    [] v1 # v2 /\ v1.kind = "variable" -> bindEntity(v1.name, v2)
    [] v1 # v2 /\ v1.kind # "variable" /\ v2.kind = "variable" -> bindEntity(v2.name, v1)
    [] v1 # v2 /\ v1.kind = "concrete" /\ v2.kind = "concrete" ->
         IF v1.stateVariables = v2.stateVariables THEN right(<<>>)
         ELSE left(buildErrorLeaf("Trying to unify entities", "Expected the same state variables"))
    [] v1 # v2 /\ v1.kind = "concrete" /\ v2.kind = "union" ->
         IF unionResolves(v2) /\ resolvedUnion(v2) = v1.stateVariables THEN right(<<>>)
         ELSE left(buildErrorLeaf("Trying to unify entities", "Union does not resolve to the same state variables"))
    [] v1 # v2 /\ v1.kind = "union" /\ v2.kind = "concrete" ->
         IF unionResolves(v1) /\ resolvedUnion(v1) = v2.stateVariables THEN right(<<>>)
         ELSE left(buildErrorLeaf("Trying to unify entities", "Union does not resolve to the same state variables"))
    [] OTHER -> left(buildErrorLeaf("Trying to unify entities", "Can't unify different kinds of entities"))

\* the sequence of direction tags of a concrete effect, as a bag
tagCount(e, k) == Cardinality({i \in 1..Len(e.components) : e.components[i].kind = k})

ComponentKinds == <<"read", "update", "temporal">>

sameTags(e1, e2) == \A i \in 1..Len(ComponentKinds) :
                      tagCount(e1, ComponentKinds[i]) = tagCount(e2, ComponentKinds[i])

\* the components of e ordered by direction
byDirection(e) ==
  LET ofKind(k) == SelectSeq(e.components, LAMBDA c : c.kind = k)
  IN ofKind("read") \o ofKind("update") \o ofKind("temporal")

\* the entities of corresponding components are unified left to right,
\* threading the substitution
RECURSIVE unifyComponents(_, _, _, _)
unifyComponents(c1, c2, i, subs) ==
  IF i > Len(c1) THEN right(subs)
  ELSE chain(applySubstitutionToEntity(subs, c1[i].entity), LAMBDA a :
         chain(applySubstitutionToEntity(subs, c2[i].entity), LAMBDA b :
           chain(mapLeft(unifyEntities(a, b),
                         LAMBDA err : buildErrorTree("Trying to unify effects", err)),
                 LAMBDA s :
                   chain(compose(subs, s),
                         LAMBDA c : unifyComponents(c1, c2, i + 1, c)))))

\* both concrete: the same bag of direction tags, then the entities of each
\* direction are unified
unifyConcrete(e1, e2) ==
  IF ~sameTags(e1, e2)
  THEN left(buildErrorLeaf("Trying to unify effects", "Expected the same effect components"))
  ELSE unifyComponents(byDirection(e1), byDirection(e2), 1, <<>>)

RECURSIVE unify(_, _)
RECURSIVE unifyPairwise(_, _, _, _)
unifyPairwise(l, r, i, subs) ==
  IF i > Len(l) THEN right(subs)
  ELSE chain(applySubstitution(subs, l[i]), LAMBDA a :
         chain(applySubstitution(subs, r[i]), LAMBDA b :
           chain(mapLeft(unify(a, b),
                         LAMBDA err : buildErrorTree("Trying to unify effects", err)),
                 LAMBDA s :
                   chain(compose(subs, s),
                         LAMBDA c : unifyPairwise(l, r, i + 1, c)))))

\* both arrows: equal arity, parameters pairwise left to right, then the results
unifyArrows(e1, e2) ==
  IF Len(e1.params) # Len(e2.params)
  THEN left(buildErrorLeaf("Trying to unify effects", "Expected the same number of parameters"))
  ELSE unifyPairwise(e1.params \o <<e1.result>>, e2.params \o <<e2.result>>, 1, <<>>)

unify(e1, e2) ==
  CASE e1 = e2 -> right(<<>>)
    [] e1 # e2 /\ e1.kind = "variable" -> bindEffect(e1.name, e2)
    [] e1 # e2 /\ e1.kind # "variable" /\ e2.kind = "variable" -> bindEffect(e2.name, e1)
    [] e1 # e2 /\ e1.kind = "arrow" /\ e2.kind = "arrow" -> unifyArrows(e1, e2)
    [] e1 # e2 /\ e1.kind = "concrete" /\ e2.kind = "concrete" -> unifyConcrete(e1, e2)
    [] OTHER -> left(buildErrorLeaf("Trying to unify effects", "Can't unify different kinds of effects"))

(***************************************************************************)
(* Builtin signatures (section 4.5) and fresh names.                       *)
(***************************************************************************)
\* propagateComponents(['read', 'temporal'])(n): parameter i is
\* Read[r_i] & Temporal[t_i], the result the unions over all parameters.
standardPropagation(arity) ==
  LET rn(i) == "r" \o ToString(i)
      tn(i) == "t" \o ToString(i)
      params == [i \in 1..arity |->
                   ConcreteEffect(<<Component("read", EntityVar(rn(i))),
                                    Component("temporal", EntityVar(tn(i)))>>)]
      result == ConcreteEffect(
                  <<Component("read", UnionEntity([i \in 1..arity |-> EntityVar(rn(i))])),
                    Component("temporal", UnionEntity([i \in 1..arity |-> EntityVar(tn(i))]))>>)
  IN Scheme(ArrowEffect(params, result), <<>>,
            [i \in 1..arity |-> rn(i)] \o [i \in 1..arity |-> tn(i)])

\* the names getSignatures() knows; all follow standard propagation
BuiltinNames == {"iadd", "not"}

builtinSignature(name, arity) == standardPropagation(arity)

\* FreshVarGenerator.freshVar(prefix) with the counter at n
freshVar(prefix, n) == prefix \o ToString(n)

\* one call of freshVar, as kept in the history of the generator
Fresh(prefix, n) == [prefix |-> prefix, name |-> freshVar(prefix, n)]

(***************************************************************************)
(* The IR (../quintIr): definitions and expressions, each with an id.      *)
(***************************************************************************)
VarDef(id, name) == [kind |-> "var", id |-> id, name |-> name]

ConstDef(id, name, type) == [kind |-> "const", id |-> id, name |-> name, typeAnnotation |-> type]

OpDef(id, name, expr) == [kind |-> "def", id |-> id, name |-> name, expr |-> expr]

NameEx(id, name) == [kind |-> "name", id |-> id, name |-> name]

IntEx(id, value) == [kind |-> "int", id |-> id, value |-> value]

BoolEx(id, value) == [kind |-> "bool", id |-> id, value |-> value]

StrEx(id, value) == [kind |-> "str", id |-> id, value |-> value]

AppEx(id, opcode, args) == [kind |-> "app", id |-> id, opcode |-> opcode, args |-> args]

Param(id, name) == [id |-> id, name |-> name]

LambdaEx(id, params, expr) == [kind |-> "lambda", id |-> id, params |-> params, expr |-> expr]

LetEx(id, opdef, expr) == [kind |-> "let", id |-> id, opdef |-> opdef, expr |-> expr]

IntType == [kind |-> "int"]

OperType(n) == [kind |-> "oper", args |-> [i \in 1..n |-> IntType]]

\* expressionToString of ../IRprinting
RECURSIVE expressionToString(_)
expressionToString(e) ==
  LET RECURSIVE join(_, _)
      join(strs, i) == IF i > Len(strs) THEN ""
                       ELSE IF i = Len(strs) THEN strs[i]
                       ELSE strs[i] \o ", " \o join(strs, i + 1)
  IN CASE e.kind = "name" -> e.name
       [] e.kind = "int" -> ToString(e.value)
       [] e.kind = "bool" -> IF e.value THEN "true" ELSE "false"
       [] e.kind = "str" -> "\"" \o e.value \o "\""
       [] e.kind = "app" ->
            e.opcode \o "(" \o join([i \in 1..Len(e.args) |-> expressionToString(e.args[i])], 1) \o ")"
       [] e.kind = "lambda" ->
            "(" \o join([i \in 1..Len(e.params) |-> e.params[i].name], 1) \o ") => "
                \o expressionToString(e.expr)
       [] e.kind = "let" ->
            "def " \o e.opdef.name \o " = " \o expressionToString(e.opdef.expr)
                \o " { " \o expressionToString(e.expr) \o " }"

(***************************************************************************)
(* walkDefinition (../IRVisitor): the callbacks of the inferrer in the     *)
(* order of the walk; children before their parent's exit callback.        *)
(***************************************************************************)
Callback(cb, node) == [cb |-> cb, node |-> node]

RECURSIVE walkExpression(_)
RECURSIVE walkDefinition(_)
walkExpression(e) ==
  LET RECURSIVE walkAll(_, _)
      walkAll(es, i) == IF i > Len(es) THEN <<>>
                        ELSE walkExpression(es[i]) \o walkAll(es, i + 1)
  IN <<Callback("enterExpr", e)>> \o
     CASE e.kind = "name" -> <<Callback("exitName", e)>>
       [] e.kind \in {"int", "bool", "str"} -> <<Callback("exitLiteral", e)>>
       [] e.kind = "app" -> walkAll(e.args, 1) \o <<Callback("exitApp", e)>>
       [] e.kind = "lambda" ->
            <<Callback("enterLambda", e)>> \o walkExpression(e.expr) \o <<Callback("exitLambda", e)>>
       [] e.kind = "let" ->
            walkDefinition(e.opdef) \o walkExpression(e.expr) \o <<Callback("exitLet", e)>>

walkDefinition(d) ==
  CASE d.kind = "var" -> <<Callback("exitVar", d)>>
    [] d.kind = "const" -> <<Callback("exitConst", d)>>
    [] d.kind = "def" -> walkExpression(d.expr) \o <<Callback("exitOpDef", d)>>

RECURSIVE walkDefinitions(_)
walkDefinitions(ds) ==
  IF ds = <<>> THEN <<>> ELSE walkDefinition(Head(ds)) \o walkDefinitions(Tail(ds))

(***************************************************************************)
(* The modules walked.  Every module starts with                           *)
(*     var x   var y   const N: int   const F: (int) => int                *)
(*     def identity(p) = p                                                 *)
(* followed by MaxDefs operator definitions d1, d2, ... whose bodies are   *)
(* drawn from Templates (slot i owns the ids SlotBase(i) .. SlotBase(i)+9) *)
(* and ends with                                                           *)
(*     var z   const M: int   def last = 0                                 *)
(* Identities are integers; 0 is one of them.                              *)
(***************************************************************************)
MaxDefs == 2

XId == 1

YId == 2

NId == 3

FId == 4

IdentityParamId == 5

IdentityBodyId == 6

IdentityLambdaId == 7

IdentityId == 8

ZId == 901

MId == 902

LastId == 903

LastBodyId == 904

SlotBase(i) == 10 * i

Prelude ==
  << VarDef(XId, "x"), VarDef(YId, "y"), ConstDef(NId, "N", IntType),
     ConstDef(FId, "F", OperType(1)),
     OpDef(IdentityId, "identity",
           LambdaEx(IdentityLambdaId, <<Param(IdentityParamId, "p")>>,
                    NameEx(IdentityBodyId, "p"))) >>

Postlude ==
  << VarDef(ZId, "z"), ConstDef(MId, "M", IntType),
     OpDef(LastId, "last", IntEx(LastBodyId, 0)) >>

PreludeTable == IdentityBodyId :> [reference |-> IdentityParamId]

Templates ==
  { "nameX", "lit", "addN1", "fooXY", "undefName", "fwdRef", "fwdApp",
    "idX", "idY", "idLit", "idArity", "appF", "applyPrev", "letId",
    "lamOp", "lamLam", "lamNullary", "lamAdd", "lamUnderscore", "lamCross",
    "letZero", "idZero" }

NoEntries == [n \in {} |-> [reference |-> 0]]

\* the body of definition d<i> and the lookup-table entries of its names
Template(t, i) ==
  LET b == SlotBase(i)
      prev == IF i = 1 THEN IdentityId ELSE SlotBase(i - 1)
      prevName == IF i = 1 THEN "identity" ELSE "d" \o ToString(i - 1)
      ref(id) == [reference |-> id]
      \* the identity 0 is given to one node of the first definition
      zero == IF i = 1 THEN 0 ELSE b + 2
  IN CASE t = "nameX" ->      \* x
            [expr |-> NameEx(b + 1, "x"), table |-> (b + 1) :> ref(XId)]
       [] t = "lit" ->        \* "a"
            [expr |-> StrEx(b + 1, "a"), table |-> NoEntries]
       [] t = "addN1" ->      \* iadd(N, 1)
            [expr |-> AppEx(b + 1, "iadd", <<NameEx(b + 2, "N"), IntEx(b + 3, 1)>>),
             table |-> (b + 2) :> ref(NId)]
       [] t = "fooXY" ->      \* foo(x, true), foo undeclared
            [expr |-> AppEx(b + 1, "foo", <<NameEx(b + 2, "x"), BoolEx(b + 3, TRUE)>>),
             table |-> (b + 2) :> ref(XId)]
       [] t = "undefName" ->  \* zz, undeclared
            [expr |-> NameEx(b + 1, "zz"), table |-> NoEntries]
       [] t = "fwdRef" ->     \* a name resolved to the next definition
            [expr |-> NameEx(b + 1, "d" \o ToString(i + 1)),
             table |-> (b + 1) :> ref(SlotBase(i + 1))]
       [] t = "fwdApp" ->     \* the next definition applied to x
            [expr |-> AppEx(b + 1, "d" \o ToString(i + 1), <<NameEx(b + 2, "x")>>),
             table |-> (b + 1) :> ref(SlotBase(i + 1)) @@ (b + 2) :> ref(XId)]
       [] t = "idX" ->        \* identity(x)
            [expr |-> AppEx(b + 1, "identity", <<NameEx(b + 2, "x")>>),
             table |-> (b + 1) :> ref(IdentityId) @@ (b + 2) :> ref(XId)]
       [] t = "idY" ->        \* identity(y)
            [expr |-> AppEx(b + 1, "identity", <<NameEx(b + 2, "y")>>),
             table |-> (b + 1) :> ref(IdentityId) @@ (b + 2) :> ref(YId)]
       [] t = "idLit" ->      \* identity(1)
            [expr |-> AppEx(b + 1, "identity", <<IntEx(b + 2, 1)>>),
             table |-> (b + 1) :> ref(IdentityId)]
       [] t = "idArity" ->    \* identity(x, y)
            [expr |-> AppEx(b + 1, "identity", <<NameEx(b + 2, "x"), NameEx(b + 3, "y")>>),
             table |-> (b + 1) :> ref(IdentityId) @@ (b + 2) :> ref(XId) @@ (b + 3) :> ref(YId)]
       [] t = "appF" ->       \* F(x)
            [expr |-> AppEx(b + 1, "F", <<NameEx(b + 2, "x")>>),
             table |-> (b + 1) :> ref(FId) @@ (b + 2) :> ref(XId)]
       [] t = "applyPrev" ->  \* the previous definition applied to y
            [expr |-> AppEx(b + 1, prevName, <<NameEx(b + 2, "y")>>),
             table |-> (b + 1) :> ref(prev) @@ (b + 2) :> ref(YId)]
       [] t = "letId" ->      \* def t = x { identity(t) }
            [expr |-> LetEx(b + 1, OpDef(b + 2, "t", NameEx(b + 3, "x")),
                            AppEx(b + 4, "identity", <<NameEx(b + 5, "t")>>)),
             table |-> (b + 3) :> ref(XId) @@ (b + 4) :> ref(IdentityId) @@ (b + 5) :> ref(b + 2)]
       [] t = "lamOp" ->      \* (q) => identity
            [expr |-> LambdaEx(b + 1, <<Param(b + 2, "q")>>, NameEx(b + 3, "identity")),
             table |-> (b + 3) :> ref(IdentityId)]
       [] t = "lamLam" ->     \* (q) => ((r) => r)
            [expr |-> LambdaEx(b + 1, <<Param(b + 2, "q")>>,
                               LambdaEx(b + 3, <<Param(b + 4, "r")>>, NameEx(b + 5, "r"))),
             table |-> (b + 5) :> ref(b + 4)]
       [] t = "lamNullary" -> \* () => (() => 1)
            [expr |-> LambdaEx(b + 1, <<>>, LambdaEx(b + 2, <<>>, IntEx(b + 3, 1))),
             table |-> NoEntries]
       [] t = "lamAdd" ->     \* (q) => iadd(q, q)
            [expr |-> LambdaEx(b + 1, <<Param(b + 2, "q")>>,
                               AppEx(b + 3, "iadd", <<NameEx(b + 4, "q"), NameEx(b + 5, "q")>>)),
             table |-> (b + 4) :> ref(b + 2) @@ (b + 5) :> ref(b + 2)]
       [] t = "lamUnderscore" -> \* (_) => false
            [expr |-> LambdaEx(b + 1, <<Param(b + 2, "_")>>, BoolEx(b + 3, FALSE)),
             table |-> NoEntries]
       [] t = "lamCross" ->   \* (q, r) => iadd(q(r), r(q))
            [expr |-> LambdaEx(b + 1, <<Param(b + 2, "q"), Param(b + 3, "r")>>,
                               AppEx(b + 4, "iadd",
                                     << AppEx(b + 5, "q", <<NameEx(b + 6, "r")>>),
                                        AppEx(b + 7, "r", <<NameEx(b + 8, "q")>>) >>)),
             table |-> (b + 5) :> ref(b + 2) @@ (b + 6) :> ref(b + 3)
                       @@ (b + 7) :> ref(b + 3) @@ (b + 8) :> ref(b + 2)]
       [] t = "letZero" ->    \* def t = x { t }, t being the declaration 0
            [expr |-> LetEx(b + 1, OpDef(zero, "t", NameEx(b + 3, "x")), NameEx(b + 4, "t")),
             table |-> (b + 3) :> ref(XId) @@ (b + 4) :> ref(zero)]
       [] t = "idZero" ->     \* identity(1), the literal being the node 0
            [expr |-> AppEx(b + 1, "identity", <<IntEx(zero, 1)>>),
             table |-> (b + 1) :> ref(IdentityId)]

ModuleDefs(choice) ==
  Prelude \o [i \in 1..MaxDefs |->
                OpDef(SlotBase(i), "d" \o ToString(i), Template(choice[i], i).expr)]
          \o Postlude

RECURSIVE mergeTables(_, _)
mergeTables(choice, i) ==
  IF i > MaxDefs THEN PreludeTable
  ELSE Template(choice[i], i).table @@ mergeTables(choice, i + 1)

ModuleTable(choice) == mergeTables(choice, 1)

(***************************************************************************)
(* EffectInferrer.  The fields of the object are gathered in a record st:  *)
(*   effects, errors, substitutions, counter (the FreshVarGenerator),      *)
(*   location, and fault: the exception that left the walk, "none" while   *)
(*   no exception was thrown.  issued is the history of the generator:     *)
(*   every name freshVar returned, in order.  input and output hold the    *)
(*   arguments and the result of one call of a function of ./base or       *)
(*   ./substitutions when such a function is run on its own.  signatures   *)
(*   is the signature map of the earlier EffectInferrerVisitor.            *)
(***************************************************************************)
VARIABLES defs, lookupTable, callbacks, pc,
          effects, errors, substitutions, counter, location, fault, issued,
          input, output, signatures

vars == <<defs, lookupTable, callbacks, pc,
          effects, errors, substitutions, counter, location, fault, issued,
          input, output, signatures>>

EmptyMap == [k \in {} |-> Pure]

\* Map.set
Put(m, k, v) == [x \in DOMAIN m \cup {k} |-> IF x = k THEN v ELSE m[x]]

State ==
  [effects |-> effects, errors |-> errors, substitutions |-> substitutions,
   counter |-> counter, location |-> location, fault |-> fault, issued |-> issued]

throw(st, what) == [st EXCEPT !.fault = what]

\* the short-circuit test never firing
hasErrorsNever(st) == FALSE

\* this.errors.size > 0
hasErrors(st) == DOMAIN st.errors # {}

\* addToResults without its mapLeft: an error is dropped
addToResultsDroppingErrors(st, exprId, result) ==
  IF isLeft(result) THEN st
  ELSE [st EXCEPT !.effects = Put(@, exprId, result.value)]

\* addToResults recording a default effect next to every error
addToResultsWithDefault(st, exprId, result) ==
  IF isLeft(result)
  THEN [st EXCEPT !.errors = Put(@, exprId, buildErrorTree(st.location, result.value)),
                  !.effects = Put(@, exprId, toScheme(Pure))]
  ELSE [st EXCEPT !.effects = Put(@, exprId, result.value)]

addToResults(st, exprId, result) ==
  IF isLeft(result)
  THEN [st EXCEPT !.errors = Put(@, exprId, buildErrorTree(st.location, result.value))]
  ELSE [st EXCEPT !.effects = Put(@, exprId, result.value)]

\* fetchResult answering a missing id with an error instead of throwing
fetchResultLenient(st, id) ==
  IF id \in DOMAIN st.errors THEN [tag |-> "left", value |-> st.errors[id]]
  ELSE IF id \in DOMAIN st.effects THEN [tag |-> "right", value |-> st.effects[id]]
  ELSE [tag |-> "left", value |-> buildErrorLeaf(st.location, "Couldn't find any result")]

\* left when the id has an error, right when it has an effect, else it throws
fetchResult(st, id) ==
  IF id \in DOMAIN st.errors THEN [tag |-> "left", value |-> st.errors[id]]
  ELSE IF id \in DOMAIN st.effects THEN [tag |-> "right", value |-> st.effects[id]]
  ELSE [tag |-> "throw", value |-> Pure]

\* newInstance handing out names without advancing the counter
newInstanceStaleCounter(scheme, n) ==
  LET k1 == Len(scheme.effectVariables)
      k2 == Len(scheme.entityVariables)
      effectSubs == [i \in 1..k1 |->
                       Binding("effect", scheme.effectVariables[i],
                               EffectVar(freshVar("e", n + i - 1)))]
      entitySubs == [i \in 1..k2 |->
                       Binding("entity", scheme.entityVariables[i],
                               EntityVar(freshVar("v", n + k1 + i - 1)))]
      instance(result) ==
        [thrown |-> isLeft(result),
         effect |-> IF isLeft(result) THEN Pure ELSE result.value,
         counter |-> n,
         names |-> [i \in 1..k1 |-> Fresh("e", n + i - 1)]
                     \o [i \in 1..k2 |-> Fresh("v", n + k1 + i - 1)]]
  IN instance(chain(compose(effectSubs, entitySubs),
                    LAMBDA s : applySubstitution(s, scheme.effect)))

\* newInstance drawing one fresh name per sort instead of one per variable
newInstanceSharedName(scheme, n) ==
  LET k1 == Len(scheme.effectVariables)
      k2 == Len(scheme.entityVariables)
      effectSubs == [i \in 1..k1 |->
                       Binding("effect", scheme.effectVariables[i],
                               EffectVar(freshVar("e", n)))]
      entitySubs == [i \in 1..k2 |->
                       Binding("entity", scheme.entityVariables[i],
                               EntityVar(freshVar("v", n + 1)))]
      instance(result) ==
        [thrown |-> isLeft(result),
         effect |-> IF isLeft(result) THEN Pure ELSE result.value,
         counter |-> n + k1 + k2,
         names |-> [i \in 1..k1 |-> Fresh("e", n)] \o [i \in 1..k2 |-> Fresh("v", n + 1)]]
  IN instance(chain(compose(effectSubs, entitySubs),
                    LAMBDA s : applySubstitution(s, scheme.effect)))

\* newInstance with the counter at n: every quantified effect variable gets a
\* fresh 'e' name, then every quantified entity variable a fresh 'v' name.
\* A left result is unwrapped, which throws.
newInstance(scheme, n) ==
  LET k1 == Len(scheme.effectVariables)
      k2 == Len(scheme.entityVariables)
      effectSubs == [i \in 1..k1 |->
                       Binding("effect", scheme.effectVariables[i],
                               EffectVar(freshVar("e", n + i - 1)))]
      entitySubs == [i \in 1..k2 |->
                       Binding("entity", scheme.entityVariables[i],
                               EntityVar(freshVar("v", n + k1 + i - 1)))]
      instance(result) ==
        [thrown |-> isLeft(result),
         effect |-> IF isLeft(result) THEN Pure ELSE result.value,
         counter |-> n + k1 + k2,
         names |-> [i \in 1..k1 |-> Fresh("e", n + i - 1)]
                     \o [i \in 1..k2 |-> Fresh("v", n + k1 + i - 1)]]
  IN instance(chain(compose(effectSubs, entitySubs),
                    LAMBDA s : applySubstitution(s, scheme.effect)))

\* newInstance passed as a detached function (exitLambda, `.map(this.newInstance)`):
\* `this` is undefined in the call, so reading this.freshVarGenerator for the
\* first quantified name throws a TypeError; without quantified names the
\* generator is never read.
newInstanceDetached(scheme, n) ==
  IF Len(scheme.effectVariables) + Len(scheme.entityVariables) > 0
  THEN [thrown |-> TRUE, effect |-> Pure, counter |-> n, names |-> <<>>]
  ELSE newInstance(scheme, n)

effectForName(st, table, name, nameId, arity) ==
  LET instantiated(inst) ==
        IF inst.thrown
        THEN [st |-> throw(st, "FreshNames"), result |-> left(Pure)]
        ELSE [st |-> [st EXCEPT !.counter = inst.counter, !.issued = @ \o inst.names],
              result |-> right(inst.effect)]
      fetched(r) ==
        CASE r.tag = "throw" -> [st |-> throw(st, "NoResult"), result |-> left(Pure)]
          [] r.tag = "left" -> [st |-> st, result |-> left(r.value)]
          [] r.tag = "right" -> instantiated(newInstance(r.value, st.counter))
  IN IF name \in BuiltinNames
     THEN instantiated(newInstance(builtinSignature(name, arity), st.counter))
     ELSE IF nameId \notin DOMAIN table \/ table[nameId].reference = 0
          THEN [st |-> st,
                result |-> left(buildErrorLeaf(st.location, "Signature not found for name: " \o name))]
          ELSE fetched(fetchResult(st, table[nameId].reference))

mapToScheme(r) == map(r, toScheme)

enterExpr(st, table, e) ==
  [st EXCEPT !.location = "Inferring effect for " \o expressionToString(e)]

exitConst(st, table, def) ==
  IF def.typeAnnotation.kind = "oper"
  THEN addToResults(st, def.id, right(standardPropagation(Len(def.typeAnnotation.args))))
  ELSE addToResults(st, def.id, right(toScheme(Pure)))

ReadEffect(name, id) ==
  ConcreteEffect(<<Component("read", ConcreteEntity({[name |-> name, reference |-> id]}))>>)

\* exitVar recording an update of the variable
exitVarUpdate(st, table, def) ==
  addToResults(st, def.id,
    right(toScheme(ConcreteEffect(
      <<Component("update", ConcreteEntity({[name |-> def.name, reference |-> def.id]}))>>))))

exitVar(st, table, def) ==
  addToResults(st, def.id, right(toScheme(ReadEffect(def.name, def.id))))

exitName(st, table, expr) ==
  LET recorded(r) ==
        IF r.st.fault # "none" THEN r.st
        ELSE addToResults(r.st, expr.id, mapToScheme(r.result))
  IN IF hasErrors(st) THEN st
     ELSE recorded(effectForName(st, table, expr.name, expr.id, 2))

\* exitLiteral short-circuited like the other expression rules
exitLiteralShortCircuit(st, table, expr) ==
  IF hasErrors(st) THEN st ELSE addToResults(st, expr.id, right(toScheme(Pure)))

exitLiteral(st, table, expr) == addToResults(st, expr.id, right(toScheme(Pure)))

\* exitOpDef recording Pure for the definition instead of its body's result
exitOpDefPure(st, table, def) ==
  LET recorded(result) ==
        IF result.tag = "throw" THEN throw(st, "NoResult")
        ELSE addToResults(st, def.id, right(toScheme(Pure)))
  IN IF hasErrors(st) THEN st ELSE recorded(fetchResult(st, def.expr.id))

exitOpDef(st, table, def) ==
  LET recorded(result) ==
        IF result.tag = "throw" THEN throw(st, "NoResult")
        ELSE addToResults(st, def.id, result)
  IN IF hasErrors(st) THEN st ELSE recorded(fetchResult(st, def.expr.id))

exitLet(st, table, expr) ==
  LET recorded(e) ==
        IF e.tag = "throw" THEN throw(st, "NoResult")
        ELSE addToResults(st, expr.id, e)
  IN IF hasErrors(st) THEN st ELSE recorded(fetchResult(st, expr.expr.id))

\* enterLambda naming an anonymous parameter without advancing the generator
enterLambdaStaleName(st, table, expr) ==
  LET RECURSIVE go(_, _)
      go(i, s) ==
        IF i > Len(expr.params) THEN s
        ELSE IF expr.params[i].name = "_"
             THEN go(i + 1, addToResults([s EXCEPT !.issued = Append(@, Fresh("e", s.counter))],
                                         expr.params[i].id,
                                         right(toScheme(EffectVar(freshVar("e", s.counter))))))
             ELSE go(i + 1, addToResults(s, expr.params[i].id,
                                         right(toScheme(EffectVar(
                                           "e_" \o expr.params[i].name \o "_"
                                                \o ToString(expr.params[i].id))))))
  IN go(1, st)

enterLambda(st, table, expr) ==
  LET RECURSIVE go(_, _)
      go(i, s) ==
        IF i > Len(expr.params) THEN s
        ELSE IF expr.params[i].name = "_"
             THEN go(i + 1, addToResults([s EXCEPT !.counter = @ + 1,
                                                    !.issued = Append(@, Fresh("e", s.counter))],
                                         expr.params[i].id,
                                         right(toScheme(EffectVar(freshVar("e", s.counter))))))
             ELSE go(i + 1, addToResults(s, expr.params[i].id,
                                         right(toScheme(EffectVar(
                                           "e_" \o expr.params[i].name \o "_"
                                                \o ToString(expr.params[i].id))))))
  IN go(1, st)

\* expr.args.map(a => fetchResult(a.id).map(e => newInstance(e))), in order
fetchInstances(st, args) ==
  LET RECURSIVE go(_, _, _)
      instantiated(i, s, acc, inst) ==
        IF inst.thrown
        THEN [st |-> throw(s, "FreshNames"), results |-> acc]
        ELSE go(i + 1, [s EXCEPT !.counter = inst.counter, !.issued = @ \o inst.names],
                Append(acc, right(inst.effect)))
      fetched(i, s, acc, r) ==
        CASE r.tag = "throw" -> [st |-> throw(s, "NoResult"), results |-> acc]
          [] r.tag = "left" -> go(i + 1, s, Append(acc, left(r.value)))
          [] r.tag = "right" -> instantiated(i, s, acc, newInstance(r.value, s.counter))
      go(i, s, acc) ==
        IF i > Len(args) THEN [st |-> s, results |-> acc]
        ELSE fetched(i, s, acc, fetchResult(s, args[i].id))
  IN go(1, st, <<>>)

\* exitApp leaving the arguments as they were recorded
republishNothing(st, s, paramEffects, args) == st

\* the forEach over zip(effects, ids): every argument is recorded again with
\* the substitution applied
republish(st, s, paramEffects, args) ==
  LET RECURSIVE go(_, _)
      go(i, cur) ==
        IF i > Len(args) THEN cur
        ELSE IF args[i].id = 0 THEN throw(cur, "ExpectedEffects")
        ELSE go(i + 1, addToResults(cur, args[i].id,
                                    mapToScheme(applySubstitution(s, paramEffects[i]))))
  IN go(1, st)

\* the arrow (E0, ..., En) => Eres unified with the signature
appArrow(params, resultEffect) == ArrowEffect(params, resultEffect)

exitApp(st, table, expr) ==
  LET \* the arguments recorded again, then the result under the substitution
      republished(s, resultEffect, st6) ==
        IF st6.fault # "none" THEN st6
        ELSE addToResults(st6, expr.id, mapToScheme(applySubstitution(s, resultEffect)))
      \* this.substitutions = s, or the error of unify / compose
      composed(st4, paramsResult, resultEffect, c) ==
        IF isLeft(c) THEN addToResults(st4, expr.id, c)
        ELSE republished(c.value, resultEffect,
                         republish([st4 EXCEPT !.substitutions = c.value], c.value,
                                   paramsResult.value, expr.args))
      \* the signature unified with the arrow of the arguments
      signed(paramsResult, resultEffect, sig) ==
        IF sig.st.fault # "none" THEN sig.st
        ELSE IF isLeft(sig.result)
             THEN addToResults(sig.st, expr.id,
                               left(buildErrorTree(sig.st.location, sig.result.value)))
             ELSE composed(sig.st, paramsResult, resultEffect,
                    chain(chain(map(paramsResult, LAMBDA ps : appArrow(ps, resultEffect)),
                                LAMBDA arrowEffect : unify(sig.result.value, arrowEffect)),
                          LAMBDA s : compose(sig.st.substitutions, s)))
      \* the fresh result variable is drawn before the signature is instantiated
      fetched(f) ==
        IF f.st.fault # "none" THEN f.st
        ELSE signed(mergeInMany(f.results), EffectVar(freshVar("e", f.st.counter)),
                    effectForName([f.st EXCEPT !.counter = @ + 1,
                                               !.issued = Append(@, Fresh("e", f.st.counter))],
                                  table,
                                  expr.opcode, expr.id, Len(expr.args)))
  IN IF hasErrors(st) THEN st
     ELSE fetched(fetchInstances(
            [st EXCEPT !.location =
               "Trying to infer effect for operator application in " \o expressionToString(expr)],
            expr.args))

\* a lambda generalised over no name at all
paramNamesNone(ps) == [effectVariables |-> <<>>, entityVariables |-> <<>>]

\* the names of the parameters of an arrow, in order of first occurrence
paramNames(ps) ==
  LET RECURSIVE go(_, _)
      go(i, names) ==
        IF i > Len(ps) THEN names
        ELSE go(i + 1, mergeNames(names, effectNames(ps[i])))
  IN go(1, [effectVariables |-> <<>>, entityVariables |-> <<>>])

\* lambda.params.map(p => ...): every parameter is instantiated, the running
\* substitution applied, and the parameter recorded again
lambdaParams(st, params) ==
  LET RECURSIVE go(_, _, _)
      applied(i, s1, acc, result) ==
        go(i + 1, addToResults(s1, params[i].id, mapToScheme(result)), Append(acc, result))
      instantiated(i, s, acc, inst) ==
        IF inst.thrown
        THEN [st |-> throw(s, "FreshNames"), results |-> acc]
        ELSE applied(i, [s EXCEPT !.counter = inst.counter, !.issued = @ \o inst.names], acc,
                     applySubstitution(s.substitutions, inst.effect))
      fetched(i, s, acc, r) ==
        CASE r.tag = "throw" -> [st |-> throw(s, "NoResult"), results |-> acc]
          [] r.tag = "left" ->
               go(i + 1, addToResults(s, params[i].id, left(r.value)),
                  Append(acc, left(r.value)))
          [] r.tag = "right" -> instantiated(i, s, acc, newInstance(r.value, s.counter))
      go(i, s, acc) ==
        IF i > Len(params) THEN [st |-> s, results |-> acc]
        ELSE fetched(i, s, acc, fetchResult(s, params[i].id))
  IN go(1, st, <<>>)

exitLambda(st, table, lambda) ==
  LET \* the scheme of the lambda quantifies the names of its parameters
      generalised(st3, effect, nonFreeNames) ==
        addToResults(st3, lambda.id,
                     right(Scheme(effect, nonFreeNames.effectVariables,
                                  nonFreeNames.entityVariables)))
      \* an operator as result is reported on the body; nothing returns there
      substituted(st2, applied) ==
        IF isLeft(applied) THEN addToResults(st2, lambda.id, applied)
        ELSE IF applied.value.kind # "arrow" THEN throw(st2, "NotArrow")
        ELSE generalised(IF applied.value.result.kind = "arrow"
                         THEN addToResults(st2, lambda.expr.id,
                                left(buildErrorLeaf(st2.location, "Result cannot be an opperator")))
                         ELSE st2,
                         applied.value, paramNames(applied.value.params))
      instantiated(st1, scheme, inst) ==
        IF inst.thrown
        THEN throw(st1, IF Len(scheme.effectVariables) + Len(scheme.entityVariables) > 0
                        THEN "TypeError" ELSE "FreshNames")
        ELSE substituted([st1 EXCEPT !.counter = inst.counter, !.issued = @ \o inst.names],
                         applySubstitution(st1.substitutions, inst.effect))
      built(st1, result) ==
        IF isLeft(result) THEN addToResults(st1, lambda.id, result)
        ELSE instantiated(st1, result.value, newInstanceDetached(result.value, st1.counter))
      withParams(exprResult, ps) ==
        IF ps.st.fault # "none" THEN ps.st
        ELSE built(ps.st,
                   IF isLeft(exprResult) THEN left(exprResult.value)
                   ELSE map(mergeInMany(ps.results),
                            LAMBDA params :
                              Scheme(ArrowEffect(params, exprResult.value.effect),
                                     exprResult.value.effectVariables,
                                     exprResult.value.entityVariables)))
      withBody(exprResult) ==
        IF exprResult.tag = "throw" THEN throw(st, "NoResult")
        ELSE withParams(exprResult, lambdaParams(st, lambda.params))
  IN IF hasErrors(st) THEN st
     ELSE withBody(fetchResult(st, lambda.expr.id))

(***************************************************************************)
(* The walk: inferEffects(defs) runs the callbacks of walkDefinition over  *)
(* every definition; an exception ends it.                                 *)
(***************************************************************************)
NoOutput == [tag |-> "none"]

NoSignatures == [n \in {} |-> [fn |-> "none"]]

Init ==
  /\ \E choice \in [1..MaxDefs -> Templates] :
       /\ defs = ModuleDefs(choice)
       /\ lookupTable = ModuleTable(choice)
  /\ callbacks = walkDefinitions(defs)
  /\ pc = 1
  /\ effects = EmptyMap
  /\ errors = EmptyMap
  /\ substitutions = <<>>
  /\ counter = 0
  /\ location = ""
  /\ fault = "none"
  /\ issued = <<>>
  /\ input = [op |-> "inferEffects"]
  /\ output = NoOutput
  /\ signatures = NoSignatures

Running(cb) == fault = "none" /\ pc <= Len(callbacks) /\ callbacks[pc].cb = cb

Becomes(st) ==
  /\ effects' = st.effects
  /\ errors' = st.errors
  /\ substitutions' = st.substitutions
  /\ counter' = st.counter
  /\ location' = st.location
  /\ fault' = st.fault
  /\ issued' = st.issued
  /\ pc' = pc + 1
  /\ UNCHANGED <<defs, lookupTable, callbacks, input, output, signatures>>

EnterExpr == Running("enterExpr") /\ Becomes(enterExpr(State, lookupTable, callbacks[pc].node))

ExitConst == Running("exitConst") /\ Becomes(exitConst(State, lookupTable, callbacks[pc].node))

ExitVar == Running("exitVar") /\ Becomes(exitVar(State, lookupTable, callbacks[pc].node))

ExitName == Running("exitName") /\ Becomes(exitName(State, lookupTable, callbacks[pc].node))

ExitApp == Running("exitApp") /\ Becomes(exitApp(State, lookupTable, callbacks[pc].node))

ExitLiteral == Running("exitLiteral") /\ Becomes(exitLiteral(State, lookupTable, callbacks[pc].node))

ExitOpDef == Running("exitOpDef") /\ Becomes(exitOpDef(State, lookupTable, callbacks[pc].node))

ExitLet == Running("exitLet") /\ Becomes(exitLet(State, lookupTable, callbacks[pc].node))

EnterLambda == Running("enterLambda") /\ Becomes(enterLambda(State, lookupTable, callbacks[pc].node))

ExitLambda == Running("exitLambda") /\ Becomes(exitLambda(State, lookupTable, callbacks[pc].node))

Next ==
  \/ EnterExpr
  \/ ExitConst
  \/ ExitVar
  \/ ExitName
  \/ ExitApp
  \/ ExitLiteral
  \/ ExitOpDef
  \/ ExitLet
  \/ EnterLambda
  \/ ExitLambda

Spec == Init /\ [][Next]_vars

(***************************************************************************)
(* Properties.                                                             *)
(***************************************************************************)
\* the node of the callback about to run, and of the callbacks that ran
Node == callbacks[pc].node

Ran(i, cb) == 1 <= i /\ i < pc /\ callbacks[i].cb = cb

Recorded(id) == id \in DOMAIN effects \/ id \in DOMAIN errors

RECURSIVE errorMessages(_)
errorMessages(tree) ==
  {tree.message} \cup UNION {errorMessages(tree.children[i]) : i \in 1..Len(tree.children)}

ErrorsExist == DOMAIN errors # {}

Resolves(id) == id \in DOMAIN lookupTable /\ lookupTable[id].reference # 0

VarDecls == {i \in 1..Len(defs) : defs[i].kind = "var"}

\* C1: no node identity is a key of both the success map and the error map.
C1_Disjoint == DOMAIN effects \cap DOMAIN errors = {}

\* C2: applying an operator that is neither a builtin nor resolved by the
\* lookup table leaves exactly one error, keyed by the application node, a
\* "Signature not found" error, and no effect for the application node.
C2_UnknownOperator ==
  [][(Running("exitApp") /\ ~ErrorsExist
        /\ Node.opcode \notin BuiltinNames /\ Node.id \notin DOMAIN lookupTable)
     => /\ fault' = "none"
        /\ DOMAIN errors' = {Node.id}
        /\ ("Signature not found for name: " \o Node.opcode) \in errorMessages(errors'[Node.id])
        /\ Node.id \notin DOMAIN effects'
        /\ effects' = effects]_vars

C2_Witness ==
  \E i \in 1..Len(callbacks) :
    /\ Ran(i, "exitApp")
    /\ callbacks[i].node.opcode = "foo"
    /\ callbacks[i].node.id \notin DOMAIN lookupTable
    /\ DOMAIN errors = {callbacks[i].node.id}

\* a name (of a name reference or of an applied operator) that the lookup
\* table resolves to a declaration without a result in either map
Unrecorded(cb) ==
  /\ Running(cb) /\ ~ErrorsExist
  /\ (IF cb = "exitName" THEN Node.name ELSE Node.opcode) \notin BuiltinNames
  /\ Resolves(Node.id)
  /\ ~Recorded(lookupTable[Node.id].reference)

\* C3 (as stated): such a name is recorded as an error of its node and the
\* walk goes on.
C3_ReportedAsError ==
  [][Unrecorded("exitName") => (fault' = "none" /\ Node.id \in DOMAIN errors')]_vars

\* C3 (amended): such a name ends the walk with the exception of fetchResult;
\* nothing is added to the error map or to the success map.
C3_Aborts ==
  [][(Unrecorded("exitName") \/ Unrecorded("exitApp"))
     => (fault' = "NoResult" /\ errors' = errors /\ effects' = effects)]_vars

C3_Witness ==
  /\ fault = "NoResult"
  /\ pc > 1
  /\ callbacks[pc - 1].cb = "exitName"
  /\ Resolves(callbacks[pc - 1].node.id)
  /\ ~Recorded(lookupTable[callbacks[pc - 1].node.id].reference)
  /\ ~Recorded(callbacks[pc - 1].node.id)

\* the applications of `identity` to one argument that have run
IdentityCall(i) ==
  /\ Ran(i, "exitApp")
  /\ Resolves(callbacks[i].node.id)
  /\ lookupTable[callbacks[i].node.id].reference = IdentityId
  /\ Len(callbacks[i].node.args) = 1

IdentityScheme ==
  Scheme(ArrowEffect(<<EffectVar("e_p_5")>>, EffectVar("e_p_5")), <<"e_p_5">>, <<>>)

\* C4: every call site of `def identity(p) = p` whose argument reads the state
\* variable v is recorded with exactly read {v}, whatever the other call sites
\* read, and the scheme of the definition stays as it was inferred.
C4_CallSites ==
  /\ \A i \in 1..Len(callbacks) :
       (IdentityCall(i) /\ callbacks[i].node.id \in DOMAIN effects)
       => LET app == callbacks[i].node
              arg == app.args[1]
          IN /\ effects[app.id] = effects[arg.id]
             /\ \A d \in VarDecls :
                  (arg.kind = "name" /\ Resolves(arg.id)
                     /\ lookupTable[arg.id].reference = defs[d].id)
                  => effects[app.id] = toScheme(ReadEffect(defs[d].name, defs[d].id))
  /\ IdentityId \in DOMAIN effects => effects[IdentityId] = IdentityScheme

C4_Witness ==
  /\ SlotBase(1) + 1 \in DOMAIN effects
  /\ SlotBase(2) + 1 \in DOMAIN effects
  /\ \E i, j \in 1..Len(callbacks) :
       /\ IdentityCall(i) /\ callbacks[i].node.id = SlotBase(1) + 1
       /\ IdentityCall(j) /\ callbacks[j].node.id = SlotBase(2) + 1
  /\ effects[SlotBase(1) + 1] = toScheme(ReadEffect("x", XId))
  /\ effects[SlotBase(2) + 1] = toScheme(ReadEffect("y", YId))

\* the body of the lambda about to be left has an arrow effect once the
\* running substitution is applied
BodyIsOperator ==
  /\ Running("exitLambda") /\ ~ErrorsExist
  /\ Node.expr.id \in DOMAIN effects
  /\ LET e == applySubstitution(substitutions, effects[Node.expr.id].effect)
     IN isRight(e) /\ e.value.kind = "arrow"

\* C5: a lambda whose body has an arrow effect gets the error "Result cannot
\* be an opperator" under the identity of its body.
C5_OperatorResult ==
  [][BodyIsOperator
     => /\ Node.expr.id \in DOMAIN errors'
        /\ "Result cannot be an opperator" \in errorMessages(errors'[Node.expr.id])]_vars

\* C6: when lambda exit finds the result of the arrow to be an arrow, no
\* scheme is recorded for the lambda node.
C6_NoSchemeForLambda ==
  [][(BodyIsOperator /\ Node.expr.id \in DOMAIN errors')
     => Node.id \notin DOMAIN effects']_vars

\* C7: with errors recorded, application, let and lambda exit record nothing
\* and leave the substitution alone; literals, consts and vars are recorded.
C7_ShortCircuit ==
  [][/\ (ErrorsExist
           /\ (Running("exitApp") \/ Running("exitLet") \/ Running("exitLambda")))
        => /\ effects' = effects /\ errors' = errors /\ substitutions' = substitutions
           /\ Node.id \notin DOMAIN effects' /\ Node.id \notin DOMAIN errors'
           /\ fault' = "none"
     /\ (ErrorsExist /\ Running("exitLiteral"))
        => (errors' = errors /\ Node.id \in DOMAIN effects'
              /\ effects'[Node.id] = toScheme(Pure))
     /\ (ErrorsExist /\ Running("exitVar"))
        => (errors' = errors /\ Node.id \in DOMAIN effects'
              /\ effects'[Node.id] = toScheme(ReadEffect(Node.name, Node.id)))
     /\ (ErrorsExist /\ Running("exitConst"))
        => (errors' = errors /\ Node.id \in DOMAIN effects'
              /\ effects'[Node.id] =
                   IF Node.typeAnnotation.kind = "oper"
                   THEN standardPropagation(Len(Node.typeAnnotation.args))
                   ELSE toScheme(Pure))]_vars

C7_Witness ==
  /\ ErrorsExist
  /\ \E i \in 1..Len(callbacks) :
       Ran(i, "exitApp") /\ ~Recorded(callbacks[i].node.id)
  /\ \E i \in 1..Len(callbacks) :
       Ran(i, "exitLambda") /\ ~Recorded(callbacks[i].node.id)
  /\ Ran(pc - 1, "exitLiteral") /\ LastBodyId \in DOMAIN effects
  /\ ZId \in DOMAIN effects /\ MId \in DOMAIN effects

\* C8: every literal that was visited is recorded with the Pure effect.
C8_LiteralsPure ==
  \A i \in 1..Len(callbacks) :
    Ran(i, "exitLiteral")
    => /\ callbacks[i].node.id \in DOMAIN effects
       /\ effects[callbacks[i].node.id] = toScheme(Pure)

\* a literal recorded again as the argument of an application, an error, and a
\* literal visited after the error
C8_Witness ==
  /\ \E i \in 1..Len(callbacks) :
       /\ Ran(i, "exitApp")
       /\ callbacks[i].node.id \in DOMAIN effects
       /\ \E a \in 1..Len(callbacks[i].node.args) :
            callbacks[i].node.args[a].kind = "int"
  /\ ErrorsExist
  /\ Ran(pc - 1, "exitLiteral")
  /\ effects[LastBodyId] = toScheme(Pure)

\* C9: a name reference that resolves to `var v` and has an effect has the
\* effect read {v}: one read component, no update component.
C9_VarReference ==
  /\ [](\A i \in 1..Len(callbacks) : \A d \in VarDecls :
         (Ran(i, "exitName") /\ Resolves(callbacks[i].node.id)
            /\ lookupTable[callbacks[i].node.id].reference = defs[d].id
            /\ callbacks[i].node.id \in DOMAIN effects)
         => effects[callbacks[i].node.id] = toScheme(ReadEffect(defs[d].name, defs[d].id)))
  /\ [][\A d \in VarDecls :
          (Running("exitName") /\ ~ErrorsExist /\ Resolves(Node.id)
             /\ lookupTable[Node.id].reference = defs[d].id)
          => (Node.id \in DOMAIN effects'
                /\ effects'[Node.id] = toScheme(ReadEffect(defs[d].name, defs[d].id)))]_vars

C9_Witness ==
  /\ \E i \in 1..Len(callbacks) :
       /\ Ran(i, "exitApp") /\ callbacks[i].node.id \in DOMAIN effects
       /\ callbacks[i].node.args[1].id = SlotBase(1) + 2
  /\ SlotBase(1) + 2 \in DOMAIN lookupTable
  /\ lookupTable[SlotBase(1) + 2].reference = YId
  /\ effects[SlotBase(1) + 2] = toScheme(ReadEffect("y", YId))

\* C10: without errors, leaving an operator definition records for the
\* definition the result recorded for its body; `def d1 = x` gets read {x}.
C10_OpDefForwards ==
  [][(Running("exitOpDef") /\ ~ErrorsExist)
     => /\ fault' = "none"
        /\ Node.expr.id \in DOMAIN effects
        /\ Node.id \in DOMAIN effects'
        /\ effects'[Node.id] = effects[Node.expr.id]
        /\ errors' = errors
        /\ ((Node.expr.kind = "name" /\ Resolves(Node.expr.id)
               /\ lookupTable[Node.expr.id].reference = XId)
            => effects'[Node.id] = toScheme(ReadEffect("x", XId)))]_vars

C10_Witness ==
  /\ defs[Len(Prelude) + 1].expr = NameEx(SlotBase(1) + 1, "x")
  /\ SlotBase(1) \in DOMAIN effects
  /\ effects[SlotBase(1)] = toScheme(ReadEffect("x", XId))
  /\ effects[SlotBase(1)].effect.components[1].kind = "read"
  /\ Len(effects[SlotBase(1)].effect.components) = 1

\* the application iadd(N, <integer literal>) with N the non-operator constant
AddConstLiteral(app) ==
  /\ app.opcode = "iadd"
  /\ Len(app.args) = 2
  /\ app.args[1].kind = "name"
  /\ Resolves(app.args[1].id)
  /\ lookupTable[app.args[1].id].reference = NId
  /\ app.args[2].kind = "int"

\* C11: with `const N` of a non-operator type, the application N + 1 of the
\* builtin of standard propagation is recorded with the Pure effect.
C11_AddPure ==
  [][(Running("exitApp") /\ ~ErrorsExist /\ AddConstLiteral(Node))
     => /\ fault' = "none"
        /\ Node.id \in DOMAIN effects'
        /\ effects'[Node.id] = toScheme(Pure)]_vars

\* the ids the callback about to run asks fetchResult for
Lookups ==
  LET cb == callbacks[pc].cb
      callee == IF /\ (IF cb = "exitName" THEN Node.name ELSE Node.opcode) \notin BuiltinNames
                   /\ Resolves(Node.id)
                THEN {lookupTable[Node.id].reference} ELSE {}
  IN CASE cb = "exitName" -> callee
       [] cb = "exitApp" -> {Node.args[i].id : i \in 1..Len(Node.args)} \cup callee
       [] cb \in {"exitOpDef", "exitLet"} -> {Node.expr.id}
       [] cb = "exitLambda" ->
            {Node.expr.id} \cup {Node.params[i].id : i \in 1..Len(Node.params)}
       [] OTHER -> {}

MissingLookup ==
  /\ fault = "none"
  /\ pc <= Len(callbacks)
  /\ ~ErrorsExist
  /\ \E id \in Lookups : ~Recorded(id)

\* C18: a callback that asks fetchResult for an id in neither map ends the
\* walk with the exception of fetchResult and leaves both maps as they
\* were; that exception has no other cause, and nothing is recorded after
\* the walk was left.
C18_MissingResultAborts ==
  /\ [][MissingLookup => (fault' = "NoResult" /\ errors' = errors /\ effects' = effects)]_vars
  /\ [][(fault = "none" /\ fault' = "NoResult") => MissingLookup]_vars
  /\ [][fault # "none" => (fault' = fault /\ errors' = errors /\ effects' = effects)]_vars

\* an application of an operator defined later: its argument has a result,
\* the operator has none
C18_Witness ==
  /\ fault = "NoResult"
  /\ pc > 1
  /\ callbacks[pc - 1].cb = "exitApp"
  /\ \A i \in 1..Len(callbacks[pc - 1].node.args) :
       callbacks[pc - 1].node.args[i].id \in DOMAIN effects
  /\ ~Recorded(lookupTable[callbacks[pc - 1].node.id].reference)
  /\ ~Recorded(callbacks[pc - 1].node.id)
  /\ ~ErrorsExist

\* the names of a sequence of names, and the names occurring in the
\* effects recorded for the parameters of the lambda being left
NamesOf(seq) == {seq[i] : i \in 1..Len(seq)}

ParamEffectVariables(eff) ==
  UNION {NamesOf(effectNames(eff[Node.params[i].id].effect).effectVariables) :
           i \in 1..Len(Node.params)}

ParamEntityVariables(eff) ==
  UNION {NamesOf(effectNames(eff[Node.params[i].id].effect).entityVariables) :
           i \in 1..Len(Node.params)}

RecordsLambda ==
  /\ Running("exitLambda")
  /\ fault' = "none"
  /\ Node.id \notin DOMAIN effects
  /\ Node.id \in DOMAIN effects'

\* C19: the scheme exitLambda records is an arrow over the effects it
\* recorded for the parameters (instantiated, the running substitution
\* applied); it quantifies exactly the names occurring in those effects,
\* each once, so a name occurring only in the result is not quantified.
C19_LambdaQuantifies ==
  [][RecordsLambda
     => LET scheme == effects'[Node.id]
        IN /\ scheme.effect.kind = "arrow"
           /\ scheme.effect.params =
                [i \in 1..Len(Node.params) |-> effects'[Node.params[i].id].effect]
           /\ NamesOf(scheme.effectVariables) = ParamEffectVariables(effects')
           /\ NamesOf(scheme.entityVariables) = ParamEntityVariables(effects')
           /\ Cardinality(NamesOf(scheme.effectVariables)) = Len(scheme.effectVariables)
           /\ Cardinality(NamesOf(scheme.entityVariables)) = Len(scheme.entityVariables)]_vars

\* a lambda recorded with a quantified parameter name and with a name that
\* occurs in its result only and is not quantified
C19_Witness ==
  /\ Ran(pc - 1, "exitLambda")
  /\ fault = "none"
  /\ callbacks[pc - 1].node.id \in DOMAIN effects
  /\ LET scheme == effects[callbacks[pc - 1].node.id]
         inResult == NamesOf(effectNames(scheme.effect.result).effectVariables)
     IN /\ scheme.effectVariables # <<>>
        /\ inResult \ NamesOf(scheme.effectVariables) # {}

RecordsApplicationError ==
  /\ Running("exitApp")
  /\ fault' = "none"
  /\ Node.id \notin DOMAIN errors
  /\ Node.id \in DOMAIN errors'

\* C20: an exitApp that records an error for the application changes the
\* two maps by that one entry of the error map: the effects of its
\* arguments and of every other node, and the other errors, stay as they
\* were.
C20_OnlyTheError ==
  [][RecordsApplicationError
     => /\ effects' = effects
        /\ DOMAIN errors' = DOMAIN errors \cup {Node.id}
        /\ \A id \in DOMAIN errors : errors'[id] = errors[id]]_vars

\* an application whose unification failed: its arguments have the effects
\* recorded before, the only error is the one of the application
C20_Witness ==
  /\ Ran(pc - 1, "exitApp")
  /\ fault = "none"
  /\ (callbacks[pc - 1].node.opcode \in BuiltinNames \/ Resolves(callbacks[pc - 1].node.id))
  /\ DOMAIN errors = {callbacks[pc - 1].node.id}
  /\ \A i \in 1..Len(callbacks[pc - 1].node.args) :
       callbacks[pc - 1].node.args[i].id \in DOMAIN effects
  /\ callbacks[pc - 1].node.id \notin DOMAIN effects

\* C21: the running substitution changes only in an exitApp that records
\* an effect, and no error, for the application; every other callback, and
\* every exitApp that records no effect for the application, leaves it as
\* it was.
C21_SubstitutionFrame ==
  [][substitutions' # substitutions
     => /\ Running("exitApp")
        /\ Node.id \notin DOMAIN effects
        /\ Node.id \in DOMAIN effects'
        /\ Node.id \notin DOMAIN errors']_vars

\* C22: once a callback has left the error map non-empty, no later callback
\* of the walk adds, replaces or removes an entry of it: all the entries of
\* the error map are written by one callback.
C22_ErrorsWrittenOnce ==
  [][ErrorsExist => errors' = errors]_vars

\* an application of an undeclared operator that ran after an error of an
\* earlier definition was recorded, and recorded nothing
C22_Witness ==
  /\ ErrorsExist
  /\ fault = "none"
  /\ \E j \in 1..Len(callbacks) :
       /\ Ran(j, "exitApp")
       /\ callbacks[j].node.opcode = "foo"
       /\ ~Recorded(callbacks[j].node.id)
       /\ \E i \in 1..(j - 1) : callbacks[i].node.id \in DOMAIN errors

\* the instances of the arguments of the application about to be inferred,
\* the fresh result variable and the instance of the signature of the callee
ArgInstances == fetchInstances(State, Node.args)

Eres == EffectVar(freshVar("e", ArgInstances.st.counter))

Callee ==
  effectForName([ArgInstances.st EXCEPT !.counter = @ + 1], lookupTable,
                Node.opcode, Node.id, Len(Node.args))

\* the substitution S of the rule (APP), composed with the running one
Unifier ==
  chain(unify(Callee.result.value,
              ArrowEffect([i \in 1..Len(Node.args) |-> ArgInstances.results[i].value], Eres)),
        LAMBDA s : compose(substitutions, s))

\* the callback infers the application and records no error
InfersApplication ==
  /\ Running("exitApp")
  /\ ~ErrorsExist
  /\ fault' = "none"
  /\ DOMAIN errors' = {}
  /\ Node.id \in DOMAIN effects'

\* C17: when an application is inferred, the running substitution becomes
\* the old one composed with the unifier of the callee's instance and the
\* arrow (E0, ..., En) => Eres; every argument is recorded with that
\* substitution applied to its instance, and the application with that
\* substitution applied to Eres.
C17_Republished ==
  [][InfersApplication
     => /\ isRight(Unifier)
        /\ substitutions' = Unifier.value
        /\ \A i \in 1..Len(Node.args) :
             effects'[Node.args[i].id] =
               toScheme(applySubstitution(substitutions', ArgInstances.results[i].value).value)
        /\ effects'[Node.id] = toScheme(applySubstitution(substitutions', Eres).value)]_vars

\* an application whose argument was a variable and is recorded again with
\* the effect the unifier gave to the variable
C17_Witness ==
  /\ Ran(pc - 1, "exitApp")
  /\ ~ErrorsExist
  /\ fault = "none"
  /\ callbacks[pc - 1].node.id \in DOMAIN effects
  /\ substitutions # <<>>
  /\ \E i \in 1..Len(callbacks[pc - 1].node.args) :
       LET arg == callbacks[pc - 1].node.args[i]
       IN /\ arg.kind = "name"
          /\ Resolves(arg.id)
          /\ effects[lookupTable[arg.id].reference].effect.kind = "variable"
          /\ effects[arg.id].effect.kind = "concrete"

\* a name, not a builtin, whose entry of the lookup table points to a
\* declaration with a recorded scheme, whatever the identity of the declaration
NamesRecordedDeclaration ==
  /\ Running("exitName")
  /\ ~ErrorsExist
  /\ Node.name \notin BuiltinNames
  /\ Node.id \in DOMAIN lookupTable
  /\ lookupTable[Node.id].reference \in DOMAIN effects

\* an application that gets as far as recording its arguments again
RepublishesArguments ==
  /\ Running("exitApp")
  /\ ~ErrorsExist
  /\ \A i \in 1..Len(Node.args) : Node.args[i].id \in DOMAIN effects
  /\ Callee.st.fault = "none"
  /\ isRight(Callee.result)
  /\ isRight(Unifier)

\* C23: whatever the identities are, 0 included, a name resolved to a
\* declaration with a recorded scheme is recorded with an instance of that
\* scheme and no error, and an application that records its arguments again
\* does so without leaving the walk.
C23_AnyIdentity ==
  [][/\ NamesRecordedDeclaration
        => /\ fault' = "none"
           /\ Node.id \notin DOMAIN errors'
           /\ Node.id \in DOMAIN effects'
           /\ effects'[Node.id] =
                toScheme(newInstance(effects[lookupTable[Node.id].reference], counter).effect)
     /\ RepublishesArguments
        => /\ fault' = "none"
           /\ \A i \in 1..Len(Node.args) : Recorded(Node.args[i].id)]_vars

(***************************************************************************)
(* The functions of ./base and ./substitutions run on their own: the       *)
(* arguments are drawn from bounded sets of terms, one action calls the    *)
(* function.  The inferrer stays idle.                                     *)
(***************************************************************************)
MaxArity == 1

StateX == [name |-> "x", reference |-> XId]

BaseEntities ==
  { ConcreteEntity({}), ConcreteEntity({StateX}), EntityVar("v1"), EntityVar("v2"),
    UnionEntity(<<EntityVar("v1"), EntityVar("v2")>>),
    UnionEntity(<<EntityVar("v1"), ConcreteEntity({StateX})>>),
    UnionEntity(<<ConcreteEntity({StateX}), ConcreteEntity({})>>) }

BaseEffects ==
  {Pure, EffectVar("e1"), EffectVar("e2")}
    \cup {ConcreteEffect(<<Component("read", v)>>) : v \in BaseEntities}
    \cup {ConcreteEffect(<<Component("read", EntityVar("v1")),
                           Component("update", EntityVar("v2"))>>),
          ArrowEffect(<<EffectVar("e1")>>, EffectVar("e2")),
          ArrowEffect(<<EffectVar("e2")>>, Pure)}

ArrowParts ==
  { Pure, EffectVar("e1"), EffectVar("e2"),
    ConcreteEffect(<<Component("read", EntityVar("v1"))>>),
    ConcreteEffect(<<Component("read", UnionEntity(<<EntityVar("v1"), EntityVar("v2")>>))>>),
    ArrowEffect(<<EffectVar("e1")>>, EffectVar("e2")) }

Terms ==
  BaseEffects \cup
    UNION {{ArrowEffect(ps, r) : ps \in [1..n -> ArrowParts], r \in ArrowParts} : n \in 1..MaxArity}

Idle ==
  /\ defs = <<>>
  /\ lookupTable = NoEntries
  /\ callbacks = <<>>
  /\ pc = 1
  /\ effects = EmptyMap
  /\ errors = EmptyMap
  /\ substitutions = <<>>
  /\ counter = 0
  /\ location = ""
  /\ fault = "none"
  /\ issued = <<>>
  /\ output = NoOutput
  /\ signatures = NoSignatures

Returns(r) ==
  /\ output = NoOutput
  /\ output' = r
  /\ UNCHANGED <<defs, lookupTable, callbacks, pc, effects, errors, substitutions,
                 counter, location, fault, issued, input, signatures>>

InitUnify == Idle /\ \E a, b \in Terms : input = [op |-> "unify", ea |-> a, eb |-> b]

Unify == input.op = "unify" /\ Returns(unify(input.ea, input.eb))

SpecUnify == InitUnify /\ [][Unify]_vars

\* n occurs in the effect e
occursInEffect(n, e) == inSeq(n, effectNames(e).effectVariables)

\* the binding maps its variable to a term that contains the variable
bindsToItself(b) ==
  IF b.kind = "effect" THEN occursInEffect(b.name, b.value)
  ELSE inSeq(b.name, entityNames(b.value))

\* one side is a variable, the other a different term in which it occurs
OccursCheckCase ==
  /\ input.ea # input.eb
  /\ \/ input.ea.kind = "variable" /\ occursInEffect(input.ea.name, input.eb)
     \/ input.eb.kind = "variable" /\ occursInEffect(input.eb.name, input.ea)

\* C13: unify fails when one side is a variable that occurs in the other
\* side (a term other than the variable itself), and a substitution that
\* unify returns binds no variable to a term containing that variable.
C13_OccursCheck ==
  output # NoOutput =>
    /\ OccursCheckCase => isLeft(output)
    /\ isRight(output) => \A i \in 1..Len(output.value) : ~bindsToItself(output.value[i])

\* unify refused a variable against an arrow that mentions it
C13_Witness ==
  /\ output # NoOutput
  /\ OccursCheckCase
  /\ input.ea = EffectVar("e1")
  /\ input.eb.kind = "arrow"
  /\ isLeft(output)

\* the substitutions unify returns on the pairs of S
unifiers(S) ==
  {unify(x[1], x[2]).value : x \in {y \in S \X S : isRight(unify(y[1], y[2]))}}

InitCompose ==
  Idle /\ \E a, b, c \in unifiers(BaseEffects) :
            input = [op |-> "compose", a |-> a, b |-> b, c |-> c]

\* both ways of composing three substitutions
Compose ==
  /\ input.op = "compose"
  /\ Returns([tag |-> "composed",
              leftFirst |-> chain(compose(input.a, input.b), LAMBDA ab : compose(ab, input.c)),
              rightFirst |-> chain(compose(input.b, input.c), LAMBDA bc : compose(input.a, bc))])

SpecCompose == InitCompose /\ [][Compose]_vars

\* C14: compose(compose(a, b), c) and compose(a, compose(b, c)) are the same
\* substitution, or both fail.
C14_ComposeAssociative ==
  output # NoOutput =>
    IF isRight(output.leftFirst) /\ isRight(output.rightFirst)
    THEN output.leftFirst.value = output.rightFirst.value
    ELSE isLeft(output.leftFirst) /\ isLeft(output.rightFirst)

\* generalize of the design document (section 4.4): the effect with its free names
generalize(e) ==
  Scheme(e, effectNames(e).effectVariables, effectNames(e).entityVariables)

\* the values the counter may have when a scheme over e1, e2, v1, v2 is
\* instantiated: past every name the scheme mentions
CounterValues == 3..5

InitInstance ==
  Idle /\ \E e \in Terms, n \in CounterValues :
            input = [op |-> "newInstance", effect |-> e, counter |-> n]

Instantiate ==
  /\ input.op = "newInstance"
  /\ Returns([tag |-> "instance"] @@ newInstance(generalize(input.effect), input.counter))

SpecInstance == InitInstance /\ [][Instantiate]_vars

\* position of x in the sequence s, 0 when absent
indexOf(x, s) ==
  IF inSeq(x, s) THEN CHOOSE i \in 1..Len(s) : s[i] = x /\ \A j \in 1..(i - 1) : s[j] # x ELSE 0

\* the entity v with every name of olds replaced by the name of news at its place
RECURSIVE renameEntity(_, _, _)
renameEntity(v, olds, news) ==
  CASE v.kind = "variable" ->
         IF inSeq(v.name, olds) THEN EntityVar(news[indexOf(v.name, olds)]) ELSE v
    [] v.kind = "concrete" -> v
    [] v.kind = "union" ->
         UnionEntity([i \in 1..Len(v.entities) |-> renameEntity(v.entities[i], olds, news)])

\* the effect e renamed: effect variables by (eOld, eNew), entity variables by (vOld, vNew)
RECURSIVE renameEffect(_, _, _, _, _)
renameEffect(e, eOld, eNew, vOld, vNew) ==
  CASE e.kind = "variable" ->
         IF inSeq(e.name, eOld) THEN EffectVar(eNew[indexOf(e.name, eOld)]) ELSE e
    [] e.kind = "concrete" ->
         ConcreteEffect([i \in 1..Len(e.components) |->
                           Component(e.components[i].kind,
                                     renameEntity(e.components[i].entity, vOld, vNew))])
    [] e.kind = "arrow" ->
         ArrowEffect([i \in 1..Len(e.params) |-> renameEffect(e.params[i], eOld, eNew, vOld, vNew)],
                     renameEffect(e.result, eOld, eNew, vOld, vNew))

Injective(s) == \A i, j \in 1..Len(s) : i # j => s[i] # s[j]

\* the names of one sort among the names drawn, in order
drawn(names, prefix) ==
  LET picked == SelectSeq(names, LAMBDA f : f.prefix = prefix)
  IN [i \in 1..Len(picked) |-> picked[i].name]

\* C15: the instance of generalize(e) is e with every free effect variable
\* replaced by one fresh effect variable and every free entity variable by
\* one fresh entity variable, distinct names for distinct variables.
C15_InstanceRenames ==
  output # NoOutput =>
    /\ ~output.thrown
    /\ Len(drawn(output.names, "e")) = Len(generalize(input.effect).effectVariables)
    /\ Len(drawn(output.names, "v")) = Len(generalize(input.effect).entityVariables)
    /\ Injective(drawn(output.names, "e") \o drawn(output.names, "v"))
    /\ output.effect = renameEffect(input.effect,
                                    generalize(input.effect).effectVariables,
                                    drawn(output.names, "e"),
                                    generalize(input.effect).entityVariables,
                                    drawn(output.names, "v"))

\* an arrow with two effect variables and two entity variables was instantiated
C15_Witness ==
  /\ output # NoOutput
  /\ input.effect.kind = "arrow"
  /\ Len(generalize(input.effect).effectVariables) = 2
  /\ Len(generalize(input.effect).entityVariables) = 2
  /\ output.effect # input.effect

(***************************************************************************)
(* Fresh names.                                                            *)
(***************************************************************************)
AnonymousParam(i) ==
  /\ Ran(i, "enterLambda")
  /\ \E k \in 1..Len(callbacks[i].node.params) : callbacks[i].node.params[k].name = "_"

\* C12: the names the generator issued in one run are pairwise distinct,
\* whatever their prefix, and the counter never decreases.
C12_FreshNamesDistinct ==
  /\ [](\A i, j \in 1..Len(issued) : i # j => issued[i].name # issued[j].name)
  /\ [][counter' >= counter /\ Len(issued') >= Len(issued)]_vars

\* an anonymous parameter, an application result and an instance with
\* entity variables have all drawn names
C12_Witness ==
  /\ fault = "none"
  /\ \E i \in 1..Len(callbacks) : AnonymousParam(i)
  /\ \E i \in 1..Len(callbacks) : Ran(i, "exitApp") /\ callbacks[i].node.id \in DOMAIN effects
  /\ \E k \in 1..Len(issued) : issued[k].prefix = "v"
  /\ \E k \in 1..Len(issued) : issued[k].prefix = "e"

(***************************************************************************)
(* The earlier entry point inferEffects(signatures, definitionsTable,      *)
(* module) with its EffectInferrerVisitor.  Its effects are not schemes:   *)
(* a concrete effect has a read and an update entity, written here as the  *)
(* two components of a concrete effect.  The fields of the visitor are     *)
(* effects, errors, signatures and counter (freshVarCounter); input holds  *)
(* the table of kinds (currentTable).                                      *)
(***************************************************************************)
emptyVariables == ConcreteEntity({})

ReadUpdate(read, update) ==
  ConcreteEffect(<<Component("read", read), Component("update", update)>>)

\* a signature of the map handed in: the arrow of the argument reads
propagateReads(arity) ==
  ArrowEffect([i \in 1..arity |-> ReadUpdate(EntityVar("r" \o ToString(i)), emptyVariables)],
              ReadUpdate(UnionEntity([i \in 1..arity |-> EntityVar("r" \o ToString(i))]),
                         emptyVariables))

GivenSignatures == [n \in BuiltinNames |-> [fn |-> "propagateReads"]]

\* signature(arity)
signatureAt(sig, arity) ==
  IF sig.fn = "propagateReads" THEN propagateReads(arity) ELSE sig.effect

\* the kinds of the value definitions of the module
ModuleKinds ==
  [n \in {"x", "y", "z"} |-> "var"]
    @@ [n \in {"N", "F", "M"} |-> "const"]
    @@ [n \in {"p", "q", "r", "_"} |-> "param"]
    @@ [n \in {"identity", "last", "t"} \cup {"d" \o ToString(i) : i \in 1..MaxDefs} |-> "def"]

NoKinds == [n \in {} |-> "def"]

VisitorCallbacks == {"exitName", "exitApp", "exitLiteral", "exitOpDef", "exitLet", "exitLambda"}

VisitorState ==
  [effects |-> effects, errors |-> errors, signatures |-> signatures, counter |-> counter]

Visitor_fetchSignature(st, opcode, arity) ==
  IF opcode \notin DOMAIN st.signatures
  THEN left("Signature not found for operator: " \o opcode)
  ELSE right(signatureAt(st.signatures[opcode], arity))

Visitor_freshVar(n) == "e" \o ToString(n) \o " "

Visitor_exitName(st, table, expr) ==
  LET kind == IF expr.name \in DOMAIN table THEN table[expr.name] ELSE "undefined"
      found(sig) ==
        IF isLeft(sig)
        THEN [st EXCEPT !.errors =
                Put(@, expr.id, [message |-> sig.value,
                                 location |-> "Inferring effect for name " \o expr.name,
                                 children |-> <<>>])]
        ELSE [st EXCEPT !.effects = Put(@, expr.id, sig.value)]
  IN CASE kind = "param" ->
            [st EXCEPT !.effects =
               Put(@, expr.id, ReadUpdate(EntityVar("r_" \o expr.name), emptyVariables))]
       [] kind = "const" ->
            [st EXCEPT !.effects = Put(@, expr.id, ReadUpdate(emptyVariables, emptyVariables))]
       [] kind = "var" ->
            [st EXCEPT !.effects =
               Put(@, expr.id, ReadUpdate(ConcreteEntity({expr.name}), emptyVariables))]
       [] OTHER -> found(Visitor_fetchSignature(st, expr.name, 2))

Visitor_exitApp(st, table, expr) ==
  LET where == "Trying to infer effect for operator application in "
                    \o expressionToString(expr)
      recorded(st1, r) ==
        IF isLeft(r)
        THEN [st1 EXCEPT !.errors = Put(@, expr.id, [location |-> where,
                                                      children |-> <<r.value>>])]
        ELSE [st1 EXCEPT !.effects = Put(@, expr.id, r.value)]
      found(sig) ==
        IF isLeft(sig)
        THEN [st EXCEPT !.errors = Put(@, expr.id, [message |-> sig.value,
                                                    location |-> where,
                                                    children |-> <<>>])]
        ELSE recorded([st EXCEPT !.counter = @ + 1],
               chain(unify(sig.value,
                           ArrowEffect([i \in 1..Len(expr.args) |-> st.effects[expr.args[i].id]],
                                       EffectVar(Visitor_freshVar(st.counter)))),
                     LAMBDA s : applySubstitution(s, EffectVar(Visitor_freshVar(st.counter)))))
  IN IF DOMAIN st.errors # {} THEN st
     ELSE found(Visitor_fetchSignature(st, expr.opcode, Len(expr.args)))

Visitor_exitLiteral(st, table, expr) ==
  [st EXCEPT !.effects = Put(@, expr.id, ReadUpdate(emptyVariables, emptyVariables))]

Visitor_exitOpDef(st, table, def) ==
  IF def.expr.id \notin DOMAIN st.effects THEN st
  ELSE [st EXCEPT !.signatures =
          Put(@, def.name, [fn |-> "constant", effect |-> st.effects[def.expr.id]])]

\* inside the guard errors is empty, and then the body has an effect
Visitor_exitLet(st, table, expr) ==
  IF DOMAIN st.errors # {} THEN st
  ELSE [st EXCEPT !.effects = Put(@, expr.id, st.effects[expr.expr.id])]

Visitor_exitLambda(st, table, expr) ==
  IF expr.expr.id \notin DOMAIN st.effects THEN st
  ELSE [st EXCEPT !.effects =
          Put(@, expr.id,
              ArrowEffect([i \in 1..Len(expr.params) |->
                             ReadUpdate(EntityVar("r_" \o expr.params[i].name), emptyVariables)],
                          st.effects[expr.expr.id]))]

\* inferEffects answering with the effects whatever was recorded
inferEffectsAlwaysRight(st) == right(st.effects)

\* the return of inferEffects: if (visitor.errors.size > 0) left(errors) else right(effects)
inferEffectsResult(st) ==
  IF DOMAIN st.errors # {} THEN left(st.errors) ELSE right(st.effects)

InitVisitor ==
  /\ \E choice \in [1..MaxDefs -> Templates] :
       /\ defs = ModuleDefs(choice)
       /\ callbacks = SelectSeq(walkDefinitions(ModuleDefs(choice)),
                                LAMBDA c : c.cb \in VisitorCallbacks)
  /\ \E kinds \in {ModuleKinds, NoKinds} :
       input = [op |-> "inferEffects(signatures, definitionsTable, module)", table |-> kinds]
  /\ lookupTable = NoEntries
  /\ pc = 1
  /\ effects = EmptyMap
  /\ errors = EmptyMap
  /\ signatures = GivenSignatures
  /\ substitutions = <<>>
  /\ counter = 0
  /\ location = ""
  /\ fault = "none"
  /\ issued = <<>>
  /\ output = NoOutput

Visiting(cb) == pc <= Len(callbacks) /\ callbacks[pc].cb = cb

VisitorBecomes(st) ==
  /\ effects' = st.effects
  /\ errors' = st.errors
  /\ signatures' = st.signatures
  /\ counter' = st.counter
  /\ pc' = pc + 1
  /\ UNCHANGED <<defs, lookupTable, callbacks, substitutions, location, fault, issued,
                 input, output>>

VisitExitName ==
  Visiting("exitName") /\ VisitorBecomes(Visitor_exitName(VisitorState, input.table, callbacks[pc].node))

VisitExitApp ==
  Visiting("exitApp") /\ VisitorBecomes(Visitor_exitApp(VisitorState, input.table, callbacks[pc].node))

VisitExitLiteral ==
  Visiting("exitLiteral")
    /\ VisitorBecomes(Visitor_exitLiteral(VisitorState, input.table, callbacks[pc].node))

VisitExitOpDef ==
  Visiting("exitOpDef") /\ VisitorBecomes(Visitor_exitOpDef(VisitorState, input.table, callbacks[pc].node))

VisitExitLet ==
  Visiting("exitLet") /\ VisitorBecomes(Visitor_exitLet(VisitorState, input.table, callbacks[pc].node))

VisitExitLambda ==
  Visiting("exitLambda")
    /\ VisitorBecomes(Visitor_exitLambda(VisitorState, input.table, callbacks[pc].node))

\* walkModule is over: inferEffects returns
VisitorReturn ==
  /\ pc > Len(callbacks)
  /\ output = NoOutput
  /\ output' = inferEffectsResult(VisitorState)
  /\ UNCHANGED <<defs, lookupTable, callbacks, pc, effects, errors, substitutions,
                 counter, location, fault, issued, input, signatures>>

NextVisitor ==
  \/ VisitExitName
  \/ VisitExitApp
  \/ VisitExitLiteral
  \/ VisitExitOpDef
  \/ VisitExitLet
  \/ VisitExitLambda
  \/ VisitorReturn

SpecVisitor == InitVisitor /\ [][NextVisitor]_vars

\* C16: inferEffects of the visitor returns the error map exactly when an
\* error was recorded during the walk (an error once recorded stays), and
\* else the effects map, and then no node was given an error.
C16_ResultOfVisitor ==
  /\ [](output # NoOutput =>
          /\ isLeft(output) <=> ErrorsExist
          /\ isLeft(output) => output.value = errors
          /\ isRight(output) => output.value = effects /\ ~ErrorsExist)
  /\ [][DOMAIN errors \subseteq DOMAIN errors' /\ (ErrorsExist => output' = output \/ isLeft(output'))]_vars

\* a walk that recorded an error after recording effects, and returned
C16_Witness ==
  /\ output # NoOutput
  /\ isLeft(output)
  /\ DOMAIN effects # {}
  /\ Cardinality(DOMAIN output.value) = 1

====
